---- MODULE Spec2Model ----
(***************************************************************************)
(* A model of youtube-summary: the transcript resolver (transcript.py),    *)
(* the summarization dispatcher and its three provider variants            *)
(* (summarizer.py) and the summarize workflow of the command line          *)
(* (cli.py).                                                               *)
(*                                                                         *)
(* Python strings are sequences of characters (one-character TLA+ strings; *)
(* a fixed literal of the source that is never taken apart is one token).  *)
(* An Optional value is a record [some, v]: None has some = FALSE.         *)
(***************************************************************************)
EXTENDS Integers, Sequences, FiniteSets, TLC

VARIABLES
    environ,        \* os.environ: variable name -> Optional[str]
    installed,      \* the optional SDK packages that can be imported
    pc,             \* control point of the running call
    args,           \* the arguments of the running top-level call
    result,         \* what the last call returned or raised
    provider,       \* the provider object summarize_text holds
    prompt,         \* the prompt / user message handed to the backend
    backendLog,     \* the generation-backend calls of the running invocation
    usedObjects,    \* ids of the provider objects earlier invocations used
    nextId,         \* allocation counter: every construction is a new object
    video_id,       \* get_transcript's local variable
    serviceLog,     \* the captioning-service calls of the running call
    transcript,     \* cli.summarize's local variable (the joined text)
    outFile,        \* contents of the output file (None until written)
    trace           \* the observable events of the running cli command

vars == <<environ, installed, pc, args, result, provider, prompt, backendLog,
          usedObjects, nextId, video_id, serviceLog, transcript, outFile, trace>>

-----------------------------------------------------------------------------
(* Bounds of the model *)

\* summarize_text invocations in one behaviour
MaxCalls == 2
\* segments in a transcript the captioning service returns
MaxSegs == 2

-----------------------------------------------------------------------------
(* Optional values and Python truthiness *)

NoneStr == [some |-> FALSE, v |-> <<>>]
NoneInt == [some |-> FALSE, v |-> 0]
Some(x) == [some |-> TRUE, v |-> x]

\* bool(x) of an Optional[str]: None and "" are falsy
TruthyStr(o) == o.some /\ o.v # <<>>
\* bool(x) of an Optional[int]: None and 0 are falsy
TruthyInt(o) == o.some /\ o.v # 0

\* Python's  a or b
Or(a, b) == IF TruthyStr(a) THEN a ELSE b

-----------------------------------------------------------------------------
(* str methods and formatting *)

UpperCase == <<"A","B","C","D","E","F","G","H","I","J","K","L","M",
               "N","O","P","Q","R","S","T","U","V","W","X","Y","Z">>
LowerCase == <<"a","b","c","d","e","f","g","h","i","j","k","l","m",
               "n","o","p","q","r","s","t","u","v","w","x","y","z">>

LowerChar(c) ==
    IF \E i \in 1..26 : UpperCase[i] = c
    THEN LowerCase[CHOOSE i \in 1..26 : UpperCase[i] = c]
    ELSE c

\* str.lower()
lower(s) == [i \in 1..Len(s) |-> LowerChar(s[i])]

Whitespace == {" ", "\n", "\t"}

RECURSIVE lstrip(_)
lstrip(s) == IF s # <<>> /\ Head(s) \in Whitespace THEN lstrip(Tail(s)) ELSE s

RECURSIVE rstrip(_)
rstrip(s) ==
    IF s # <<>> /\ s[Len(s)] \in Whitespace
    THEN rstrip(SubSeq(s, 1, Len(s) - 1))
    ELSE s

\* a strip that removes leading whitespace only
strip_LeadingOnly(s) == lstrip(s)

\* str.strip()
strip(s) == rstrip(lstrip(s))

DigitChar == <<"0","1","2","3","4","5","6","7","8","9">>

RECURSIVE Digits(_)
Digits(n) ==
    IF n < 10 THEN <<DigitChar[n + 1]>>
    ELSE Digits(n \div 10) \o <<DigitChar[(n % 10) + 1]>>

\* f"{n}" of an int
Str(n) == IF n < 0 THEN <<"-">> \o Digits(-n) ELSE Digits(n)

\* Python's  sub in s
Contains(s, sub) ==
    \E i \in 1..(Len(s) - Len(sub) + 1) : SubSeq(s, i, i + Len(sub) - 1) = sub

-----------------------------------------------------------------------------
(* os.getenv *)

EnvNames == {"SUMMARY_PROVIDER", "OLLAMA_MODEL", "OPENAI_MODEL", "ANTHROPIC_MODEL",
             "OPENAI_API_KEY", "ANTHROPIC_API_KEY"}

\* os.getenv(name): Optional[str]
getenv(name) == environ[name]

\* os.getenv(name, default): str
getenv_default(name, default) ==
    IF environ[name].some THEN environ[name].v ELSE default

-----------------------------------------------------------------------------
(* String literals of summarizer.py *)

OLLAMA    == <<"o","l","l","a","m","a">>
OPENAI    == <<"o","p","e","n","a","i">>
ANTHROPIC == <<"a","n","t","h","r","o","p","i","c">>

\* default model names (never taken apart: one token each)
LLAMA_MODEL  == <<"llama3.2">>
GPT_MODEL    == <<"gpt-3.5-turbo">>
CLAUDE_MODEL == <<"claude-3-haiku-20240307">>

-----------------------------------------------------------------------------
(* Outcomes of a call: a returned object or a raised exception.            *)
(* err names the failure in the vocabulary of the error taxonomy; exc is   *)
(* the Python exception type; reads is the set of environment variables    *)
(* the call consulted. Every constructed object takes the next free id.    *)

NoObject == [cls |-> "none", id |-> 0, model_name |-> <<>>, api_key |-> NoneStr,
             client |-> NoneStr]

Returned(obj, reads) ==
    [ok |-> TRUE, obj |-> obj, value |-> <<>>, exc |-> "none", err |-> "none",
     msg |-> <<>>, reads |-> reads]

\* a call that returned a string
ReturnedStr(v) ==
    [ok |-> TRUE, obj |-> NoObject, value |-> v, exc |-> "none", err |-> "none",
     msg |-> <<>>, reads |-> {}]

Raised(exc, err, msg, reads) ==
    [ok |-> FALSE, obj |-> NoObject, value |-> <<>>, exc |-> exc, err |-> err,
     msg |-> msg, reads |-> reads]

NoResult == Returned(NoObject, {})

\* a callee's outcome, with the caller's own environment reads added
WithReads(r, reads) == [r EXCEPT !.reads = r.reads \cup reads]

-----------------------------------------------------------------------------
(* The provider variants' constructors *)

\* OllamaProvider.__init__(model_name)
OllamaProvider(model_name) ==
    Returned([cls |-> "OllamaProvider", id |-> nextId, model_name |-> model_name,
              api_key |-> NoneStr, client |-> NoneStr], {})

\* a constructor that prefers the environment's credential to the argument
OpenAIProvider_EnvFirst(model_name, api_key) ==
    LET key == Or(getenv("OPENAI_API_KEY"), api_key)
    IN  IF ~TruthyStr(key)
        THEN Raised("ValueError", "MissingCredential",
                    <<"OpenAI API key is required.">>, {"OPENAI_API_KEY"})
        ELSE IF "openai" \notin installed
        THEN Raised("ImportError", "ImportError",
                    <<"OpenAI package is required for OpenAIProvider.">>, {"OPENAI_API_KEY"})
        ELSE Returned([cls |-> "OpenAIProvider", id |-> nextId, model_name |-> model_name,
                       api_key |-> key, client |-> key], {"OPENAI_API_KEY"})

\* a constructor that leaves the credential check to the first request
OpenAIProvider_NoCheck(model_name, api_key) ==
    LET key == Or(api_key, getenv("OPENAI_API_KEY"))
    IN  Returned([cls |-> "OpenAIProvider", id |-> nextId, model_name |-> model_name,
                  api_key |-> key, client |-> key],
                 IF TruthyStr(api_key) THEN {} ELSE {"OPENAI_API_KEY"})

\* OpenAIProvider.__init__(model_name, api_key): the credential from the
\* argument, else from OPENAI_API_KEY; then the deferred import of the SDK
OpenAIProvider(model_name, api_key) ==
    LET key   == Or(api_key, getenv("OPENAI_API_KEY"))
        reads == IF TruthyStr(api_key) THEN {} ELSE {"OPENAI_API_KEY"}
    IN  IF ~TruthyStr(key)
        THEN Raised("ValueError", "MissingCredential",
                    <<"OpenAI API key is required.">>, reads)
        ELSE IF "openai" \notin installed
        THEN Raised("ImportError", "ImportError",
                    <<"OpenAI package is required for OpenAIProvider.">>, reads)
        ELSE Returned([cls |-> "OpenAIProvider", id |-> nextId, model_name |-> model_name,
                       api_key |-> key, client |-> key], reads)

\* AnthropicProvider.__init__(model_name, api_key): the same under
\* ANTHROPIC_API_KEY and the anthropic SDK
AnthropicProvider(model_name, api_key) ==
    LET key   == Or(api_key, getenv("ANTHROPIC_API_KEY"))
        reads == IF TruthyStr(api_key) THEN {} ELSE {"ANTHROPIC_API_KEY"}
    IN  IF ~TruthyStr(key)
        THEN Raised("ValueError", "MissingCredential",
                    <<"Anthropic API key is required.">>, reads)
        ELSE IF "anthropic" \notin installed
        THEN Raised("ImportError", "ImportError",
                    <<"Anthropic package is required for AnthropicProvider.">>, reads)
        ELSE Returned([cls |-> "AnthropicProvider", id |-> nextId, model_name |-> model_name,
                       api_key |-> key, client |-> key], reads)

-----------------------------------------------------------------------------
(* get_provider(provider_name, **kwargs) *)

\* a resolution that lets the environment override the argument
ResolveSelector_EnvFirst(provider_name) ==
    IF environ["SUMMARY_PROVIDER"].some
    THEN lower(environ["SUMMARY_PROVIDER"].v)
    ELSE IF TruthyStr(provider_name) THEN provider_name.v ELSE OLLAMA

\* line 201:  provider_name or os.getenv("SUMMARY_PROVIDER", "ollama").lower()
\* (the .lower() binds to the getenv call alone)
ResolveSelector(provider_name) ==
    IF TruthyStr(provider_name)
    THEN provider_name.v
    ELSE lower(getenv_default("SUMMARY_PROVIDER", OLLAMA))

SelectorReads(provider_name) ==
    IF TruthyStr(provider_name) THEN {} ELSE {"SUMMARY_PROVIDER"}

\* kwargs.get("model_name") or os.getenv(var, default)
ResolveModel(kwargs, var, default) ==
    Or(kwargs.model_name, Some(getenv_default(var, default))).v

ModelReads(kwargs, var) ==
    IF TruthyStr(kwargs.model_name) THEN {} ELSE {var}

\* kwargs.get("api_key") or os.getenv(var)
ResolveKey(kwargs, var) == Or(kwargs.api_key, getenv(var))

KeyReads(kwargs, var) ==
    IF TruthyStr(kwargs.api_key) THEN {} ELSE {var}

get_provider(provider_name, kwargs) ==
    LET name  == ResolveSelector(provider_name)
        reads == SelectorReads(provider_name)
    IN  IF name = OLLAMA
        THEN WithReads(OllamaProvider(ResolveModel(kwargs, "OLLAMA_MODEL", LLAMA_MODEL)),
                       reads \cup ModelReads(kwargs, "OLLAMA_MODEL"))
        ELSE IF name = OPENAI
        THEN WithReads(OpenAIProvider(ResolveModel(kwargs, "OPENAI_MODEL", GPT_MODEL),
                                      ResolveKey(kwargs, "OPENAI_API_KEY")),
                       reads \cup ModelReads(kwargs, "OPENAI_MODEL")
                             \cup KeyReads(kwargs, "OPENAI_API_KEY"))
        ELSE IF name = ANTHROPIC
        THEN WithReads(AnthropicProvider(ResolveModel(kwargs, "ANTHROPIC_MODEL", CLAUDE_MODEL),
                                         ResolveKey(kwargs, "ANTHROPIC_API_KEY")),
                       reads \cup ModelReads(kwargs, "ANTHROPIC_MODEL")
                             \cup KeyReads(kwargs, "ANTHROPIC_API_KEY"))
        ELSE Raised("ValueError", "UnknownProvider", <<"Unknown provider: ">> \o name, reads)

-----------------------------------------------------------------------------
(* Inputs *)

\* provider_name arguments: absent, empty, the three names, other spellings
\* of them, and a name outside the set
SelectorArgs ==
    { NoneStr, Some(<<>>), Some(OLLAMA), Some(OPENAI), Some(ANTHROPIC),
      Some(<<"O","p","e","n","A","I">>), Some(<<"O","L","L","A","M","A">>),
      Some(<<"A","n","t","h","r","o","p","i","c">>), Some(<<"g","p","t">>) }

\* values of SUMMARY_PROVIDER
SelectorEnvs ==
    { NoneStr, Some(<<>>), Some(<<"O","P","E","N","A","I">>), Some(ANTHROPIC),
      Some(<<"O","l","l","a","m","a">>), Some(<<"g","p","t">>) }

KeyArgs == { NoneStr, Some(<<>>), Some(<<"k","a">>) }
KeyEnvs == { NoneStr, Some(<<>>), Some(<<"k","e">>) }

ModelArgs == { NoneStr, Some(<<"m","a">>) }
ModelEnvs == { NoneStr, Some(<<"m","e">>) }

Packages == {"openai", "anthropic"}

NoArgs == [fn |-> "none", provider_name |-> NoneStr, model_name |-> NoneStr,
           api_key |-> NoneStr, text |-> <<>>, max_length |-> NoneInt,
           url |-> <<>>, languages |-> <<>>, output_file |-> FALSE]

Environments(selectors, keys, models) ==
    { [n \in EnvNames |->
          CASE n = "SUMMARY_PROVIDER"  -> s
            [] n = "OPENAI_API_KEY"    -> ko
            [] n = "ANTHROPIC_API_KEY" -> ka
            [] OTHER                   -> m ] :
      s \in selectors, ko \in keys, ka \in keys, m \in models }

\* everything but the process environment, before any call
InitLocals ==
    /\ pc = "idle"
    /\ args = NoArgs
    /\ result = NoResult
    /\ provider = NoObject
    /\ prompt = <<>>
    /\ backendLog = <<>>
    /\ usedObjects = {}
    /\ nextId = 1
    /\ video_id = <<>>
    /\ serviceLog = <<>>
    /\ transcript = <<>>
    /\ outFile = NoneStr
    /\ trace = <<>>

-----------------------------------------------------------------------------
(* SpecProvider: get_provider and the constructors called directly *)

InitProvider ==
    /\ environ \in Environments(SelectorEnvs, KeyEnvs, ModelEnvs)
    /\ installed \in SUBSET Packages
    /\ InitLocals

UNCHANGED_Rest ==
    UNCHANGED <<environ, installed, provider, prompt, backendLog, usedObjects,
                nextId, video_id, serviceLog, transcript, outFile, trace>>

CallGetProvider ==
    \E name \in SelectorArgs, m \in ModelArgs, k \in KeyArgs :
        /\ pc = "idle"
        /\ pc' = "get_provider"
        /\ args' = [NoArgs EXCEPT !.fn = "get_provider", !.provider_name = name,
                                  !.model_name = m, !.api_key = k]
        /\ result' = get_provider(name, [model_name |-> m, api_key |-> k])
        /\ UNCHANGED_Rest

CallOllamaProvider ==
    \E m \in (ModelArgs \ {NoneStr}) \cup {Some(LLAMA_MODEL)} :
        /\ pc = "idle"
        /\ pc' = "constructor"
        /\ args' = [NoArgs EXCEPT !.fn = "OllamaProvider", !.model_name = m]
        /\ result' = OllamaProvider(m.v)
        /\ UNCHANGED_Rest

CallOpenAIProvider ==
    \E m \in (ModelArgs \ {NoneStr}) \cup {Some(GPT_MODEL)}, k \in KeyArgs :
        /\ pc = "idle"
        /\ pc' = "constructor"
        /\ args' = [NoArgs EXCEPT !.fn = "OpenAIProvider", !.model_name = m, !.api_key = k]
        /\ result' = OpenAIProvider(m.v, k)
        /\ UNCHANGED_Rest

CallAnthropicProvider ==
    \E m \in (ModelArgs \ {NoneStr}) \cup {Some(CLAUDE_MODEL)}, k \in KeyArgs :
        /\ pc = "idle"
        /\ pc' = "constructor"
        /\ args' = [NoArgs EXCEPT !.fn = "AnthropicProvider", !.model_name = m, !.api_key = k]
        /\ result' = AnthropicProvider(m.v, k)
        /\ UNCHANGED_Rest

\* the caller goes on to its next call: the finished call's locals are gone
CallerContinues ==
    /\ pc \in {"get_provider", "constructor"}
    /\ pc' = "idle"
    /\ args' = NoArgs
    /\ result' = NoResult
    /\ UNCHANGED_Rest

NextProvider ==
    \/ CallerContinues
    \/ CallGetProvider
    \/ CallOllamaProvider
    \/ CallOpenAIProvider
    \/ CallAnthropicProvider

SpecProvider == InitProvider /\ [][NextProvider]_vars

-----------------------------------------------------------------------------
(* Properties of get_provider and the constructors (SpecProvider) *)

KnownSelectors == {OLLAMA, OPENAI, ANTHROPIC}

VariantOf(name) ==
    CASE name = OLLAMA    -> "OllamaProvider"
      [] name = OPENAI    -> "OpenAIProvider"
      [] name = ANTHROPIC -> "AnthropicProvider"
      [] OTHER            -> "none"

\* a selector or credential is given when it is neither None nor empty
Given(o) == o.some /\ Len(o.v) > 0

\* the selector string a get_provider call is made with: the argument, else
\* SUMMARY_PROVIDER, else the default
SelectorString ==
    IF Given(args.provider_name) THEN args.provider_name.v
    ELSE IF environ["SUMMARY_PROVIDER"].some THEN environ["SUMMARY_PROVIDER"].v
    ELSE OLLAMA

\* C1: every selector that equals ollama, openai or anthropic up to letter
\* case, from the argument or from SUMMARY_PROVIDER, resolves the variant of
\* its lower-case spelling and never fails with UnknownProvider.
C1_CaseInsensitive ==
    (pc = "get_provider" /\ lower(SelectorString) \in KnownSelectors) =>
        /\ result.err # "UnknownProvider"
        /\ result.ok => result.obj.cls = VariantOf(lower(SelectorString))

\* C2: the selector is the argument when one is given, whatever the
\* environment holds; SUMMARY_PROVIDER is used only without an argument; with
\* neither the Ollama variant is returned; a selector that is none of the
\* three names (in any letter case) fails with UnknownProvider and returns
\* no variant.
C2_ResolutionOrder ==
    pc = "get_provider" =>
        LET arg == args.provider_name
            env == environ["SUMMARY_PROVIDER"]
        IN  /\ Given(arg) =>
                /\ "SUMMARY_PROVIDER" \notin result.reads
                /\ arg.v \in KnownSelectors =>
                      /\ result.err # "UnknownProvider"
                      /\ result.ok => result.obj.cls = VariantOf(arg.v)
                /\ lower(arg.v) \notin KnownSelectors =>
                      /\ result.err = "UnknownProvider"
                      /\ result.msg = <<"Unknown provider: ">> \o arg.v
            /\ (~Given(arg) /\ env.some) =>
                /\ "SUMMARY_PROVIDER" \in result.reads
                /\ lower(env.v) \in KnownSelectors =>
                      /\ result.err # "UnknownProvider"
                      /\ result.ok => result.obj.cls = VariantOf(lower(env.v))
                /\ lower(env.v) \notin KnownSelectors => result.err = "UnknownProvider"
            /\ (~Given(arg) /\ ~env.some) =>
                /\ result.ok
                /\ result.obj.cls = "OllamaProvider"
            /\ result.err = "UnknownProvider" =>
                /\ ~result.ok
                /\ result.obj = NoObject

\* an argument naming one variant wins over an environment naming another
C2_Witness ==
    /\ pc = "get_provider"
    /\ args.provider_name = Some(OLLAMA)
    /\ environ["SUMMARY_PROVIDER"] = Some(ANTHROPIC)
    /\ result.ok
    /\ result.obj.cls = "OllamaProvider"

\* the hosted variant a finished call constructed or tried to construct
HostedCall ==
    CASE args.fn = "OpenAIProvider"    -> "OpenAIProvider"
      [] args.fn = "AnthropicProvider" -> "AnthropicProvider"
      [] args.fn = "get_provider" /\ ResolveSelector(args.provider_name) = OPENAI
                                       -> "OpenAIProvider"
      [] args.fn = "get_provider" /\ ResolveSelector(args.provider_name) = ANTHROPIC
                                       -> "AnthropicProvider"
      [] OTHER                         -> "none"

KeyVarOf(cls) == IF cls = "OpenAIProvider" THEN "OPENAI_API_KEY" ELSE "ANTHROPIC_API_KEY"
PackageOf(cls) == IF cls = "OpenAIProvider" THEN "openai" ELSE "anthropic"

\* MissingCredential exactly when neither credential is present
C3_MissingExactly ==
    (pc \in {"get_provider", "constructor"} /\ HostedCall # "none") =>
        (result.err = "MissingCredential"
            <=> (~Given(args.api_key) /\ ~Given(environ[KeyVarOf(HostedCall)])))

\* C3 as stated: MissingCredential exactly when neither credential is
\* present; with an explicit credential, construction succeeds, the stored
\* credential is the explicit one and the environment's is not consulted.
C3_Original ==
    /\ C3_MissingExactly
    /\ (pc \in {"get_provider", "constructor"} /\ HostedCall # "none"
            /\ Given(args.api_key)) =>
          /\ result.ok
          /\ result.obj.cls = HostedCall
          /\ result.obj.api_key = args.api_key
          /\ KeyVarOf(HostedCall) \notin result.reads

\* C3 (amended): as C3, but construction with an explicit credential
\* succeeds only when the variant's SDK package can be imported; when it
\* cannot, construction fails with ImportError (never MissingCredential),
\* still without consulting the environment's credential.
C3_Amended ==
    /\ C3_MissingExactly
    /\ (pc \in {"get_provider", "constructor"} /\ HostedCall # "none"
            /\ Given(args.api_key)) =>
          /\ KeyVarOf(HostedCall) \notin result.reads
          /\ PackageOf(HostedCall) \in installed =>
                /\ result.ok
                /\ result.obj.cls = HostedCall
                /\ result.obj.api_key = args.api_key
          /\ PackageOf(HostedCall) \notin installed =>
                /\ ~result.ok
                /\ result.exc = "ImportError"

\* an explicit credential is stored although the environment holds another
C3_Witness ==
    /\ pc = "constructor"
    /\ args.fn = "OpenAIProvider"
    /\ Given(args.api_key)
    /\ Given(environ["OPENAI_API_KEY"])
    /\ environ["OPENAI_API_KEY"] # args.api_key
    /\ result.ok
    /\ result.obj.api_key = args.api_key

-----------------------------------------------------------------------------
(* The variants' summarize(text, max_length): the message each one builds. *)
(* The fixed pieces of the templates are single tokens.                    *)

OLLAMA_PREAMBLE ==
    <<"Please provide a concise summary of the following transcript.\nFocus on the main points and key insights.\n\nTRANSCRIPT:\n">>
OLLAMA_CUE == <<"\n", "\n", "SUMMARY:">>
OLLAMA_LENGTH_OPEN  == "\n(Please keep the summary under "
OLLAMA_LENGTH_CLOSE == " words)"

OPENAI_PREAMBLE    == <<"Please summarize the following transcript:\n\n">>
ANTHROPIC_PREAMBLE == <<"Here is the transcript to summarize:\n\n">>
HOSTED_LENGTH_OPEN  == "\n\nKeep the summary under "
HOSTED_LENGTH_CLOSE == " words."

OllamaLengthSentence(n) == <<OLLAMA_LENGTH_OPEN>> \o Str(n) \o <<OLLAMA_LENGTH_CLOSE>>
HostedLengthSentence(n) == <<HOSTED_LENGTH_OPEN>> \o Str(n) \o <<HOSTED_LENGTH_CLOSE>>

\* OllamaProvider.summarize: the prompt
OllamaPrompt(text, max_length) ==
    LET prompt0 == OLLAMA_PREAMBLE \o text \o OLLAMA_CUE
    IN  IF TruthyInt(max_length)
        THEN prompt0 \o OllamaLengthSentence(max_length.v)
        ELSE prompt0

\* OpenAIProvider.summarize: the user message
OpenAIUserMessage(text, max_length) ==
    LET user_message == OPENAI_PREAMBLE \o text
    IN  IF TruthyInt(max_length)
        THEN user_message \o HostedLengthSentence(max_length.v)
        ELSE user_message

\* AnthropicProvider.summarize: the user message
AnthropicUserMessage(text, max_length) ==
    LET user_message == ANTHROPIC_PREAMBLE \o text
    IN  IF TruthyInt(max_length)
        THEN user_message \o HostedLengthSentence(max_length.v)
        ELSE user_message

\* the message provider.summarize(text, max_length) sends
MessageOf(obj, text, max_length) ==
    CASE obj.cls = "OllamaProvider"    -> OllamaPrompt(text, max_length)
      [] obj.cls = "OpenAIProvider"    -> OpenAIUserMessage(text, max_length)
      [] obj.cls = "AnthropicProvider" -> AnthropicUserMessage(text, max_length)

\* the backend a variant calls
BackendOf(obj) ==
    CASE obj.cls = "OllamaProvider"    -> "ollama.generate"
      [] obj.cls = "OpenAIProvider"    -> "chat.completions.create"
      [] obj.cls = "AnthropicProvider" -> "messages.create"

\* `response[...]....strip()`: what summarize returns for the backend's text
SummaryOf(generated) == strip(generated)

-----------------------------------------------------------------------------
(* SpecSummarize: summarize_text(text, provider_name, max_length, **kwargs) *)

Texts == { <<"h","i">>, <<" ","a"," ","b">> }

MaxLengths == { NoneInt, Some(0), Some(50), Some(-3) }

\* what a generation backend may answer
BackendTexts == { <<"X">>, <<" ","X","\n">>, <<"\n","a"," ","b","\t">>, <<" ">> }
BackendErrors == { "ConnectionError", "ResponseError" }

SummarizeSelectors ==
    { NoneStr, Some(OLLAMA), Some(OPENAI), Some(ANTHROPIC), Some(<<"g","p","t">>) }

InitSummarize ==
    /\ environ \in Environments({NoneStr, Some(<<"O","P","E","N","A","I">>)},
                                {NoneStr, Some(<<"k","e">>)}, {NoneStr})
    /\ installed \in SUBSET Packages
    /\ InitLocals

\* line 234: provider = get_provider(provider_name, **kwargs)
SummarizeTextEnter(provider_name, kwargs) ==
    LET r == get_provider(provider_name, kwargs)
    IN  /\ IF r.ok
           THEN /\ provider' = r.obj
                /\ nextId' = nextId + 1
                /\ result' = NoResult
                /\ pc' = "summarize"
           ELSE /\ provider' = NoObject
                /\ nextId' = nextId
                /\ result' = r
                /\ pc' = "raised"
        /\ backendLog' = <<>>
        /\ prompt' = <<>>

CallSummarizeText ==
    \E text \in Texts, name \in SummarizeSelectors, ml \in MaxLengths,
       m \in ModelArgs, k \in {NoneStr, Some(<<"k","a">>)} :
        /\ pc = "idle"
        /\ nextId <= MaxCalls
        /\ args' = [NoArgs EXCEPT !.fn = "summarize_text", !.text = text,
                                  !.provider_name = name, !.max_length = ml,
                                  !.model_name = m, !.api_key = k]
        /\ SummarizeTextEnter(name, [model_name |-> m, api_key |-> k])
        /\ UNCHANGED <<environ, installed, usedObjects, video_id, serviceLog,
                       transcript, outFile, trace>>

\* line 235, first half: provider.summarize builds its message and calls the
\* backend with the fixed sampling parameters
ProviderSummarizeSend ==
    /\ pc = "summarize"
    /\ prompt' = MessageOf(provider, args.text, args.max_length)
    /\ backendLog' = Append(backendLog,
            [backend |-> BackendOf(provider), provider |-> provider.id,
             client |-> provider.client, model |-> provider.model_name,
             message |-> prompt', temperature |-> "0.3", max_tokens |-> 1000,
             answered |-> FALSE, ok |-> FALSE, answer |-> <<>>])
    /\ pc' = "backend"
    /\ UNCHANGED <<environ, installed, args, result, provider, usedObjects, nextId,
                   video_id, serviceLog, transcript, outFile, trace>>

\* the backend answers: summarize returns the stripped text
BackendReturns ==
    \E generated \in BackendTexts :
        /\ pc = "backend"
        /\ backendLog' = [backendLog EXCEPT ![Len(backendLog)] =
                            [@ EXCEPT !.answered = TRUE, !.ok = TRUE, !.answer = generated]]
        /\ result' = ReturnedStr(SummaryOf(generated))
        /\ pc' = "returned"
        /\ UNCHANGED <<environ, installed, args, provider, prompt, usedObjects, nextId,
                       video_id, serviceLog, transcript, outFile, trace>>

\* the backend raises: nothing catches it
BackendRaises ==
    \E e \in BackendErrors :
        /\ pc = "backend"
        /\ backendLog' = [backendLog EXCEPT ![Len(backendLog)] =
                            [@ EXCEPT !.answered = TRUE, !.ok = FALSE, !.answer = <<e>>]]
        /\ result' = Raised(e, "BackendFailure", <<e>>, {})
        /\ pc' = "raised"
        /\ UNCHANGED <<environ, installed, args, provider, prompt, usedObjects, nextId,
                       video_id, serviceLog, transcript, outFile, trace>>

\* summarize_text is over: its provider is garbage, the caller goes on
SummarizeTextDone ==
    /\ pc \in {"returned", "raised"}
    /\ args.fn = "summarize_text"
    /\ pc' = "idle"
    /\ usedObjects' = IF provider = NoObject THEN usedObjects
                      ELSE usedObjects \cup {provider.id}
    /\ args' = NoArgs
    /\ result' = NoResult
    /\ provider' = NoObject
    /\ prompt' = <<>>
    /\ backendLog' = <<>>
    /\ UNCHANGED <<environ, installed, nextId, video_id, serviceLog, transcript,
                   outFile, trace>>

NextSummarize ==
    \/ CallSummarizeText
    \/ ProviderSummarizeSend
    \/ BackendReturns
    \/ BackendRaises
    \/ SummarizeTextDone

SpecSummarize == InitSummarize /\ [][NextSummarize]_vars

-----------------------------------------------------------------------------
(* Properties of summarize_text (SpecSummarize) *)

Variants == {"OllamaProvider", "OpenAIProvider", "AnthropicProvider"}

\* the message of the invocation's backend call
SentMessage == backendLog[1].message

LengthSentenceOf(cls, n) ==
    IF cls = "OllamaProvider" THEN OllamaLengthSentence(n) ELSE HostedLengthSentence(n)

LengthOpeners == {OLLAMA_LENGTH_OPEN, HOSTED_LENGTH_OPEN}

\* C4: for each variant and every integer max_length, the message sent to
\* the backend contains the length-constraint sentence mentioning the number
\* if and only if max_length is not None.
C4_LengthSentenceIffSet ==
    backendLog # <<>> =>
        /\ args.max_length.some =>
              Contains(SentMessage, LengthSentenceOf(provider.cls, args.max_length.v))
        /\ ~args.max_length.some =>
              \A i \in 1..Len(SentMessage) : SentMessage[i] \notin LengthOpeners

\* C9: the Ollama prompt is preamble, transcript text, length sentence (when
\* max_length is set), cue: the cue SUMMARY: is the last element of the
\* prompt, for every text and every max_length.
C9_CueIsLast ==
    (backendLog # <<>> /\ provider.cls = "OllamaProvider") =>
        /\ SubSeq(SentMessage, 1, Len(OLLAMA_PREAMBLE) + Len(args.text))
              = OLLAMA_PREAMBLE \o args.text
        /\ SentMessage[Len(SentMessage)] = "SUMMARY:"

IsStripped(s) == s = <<>> \/ (s[1] \notin Whitespace /\ s[Len(s)] \notin Whitespace)

\* t is s without some leading and some trailing whitespace
TrimOf(t, s) ==
    \E i \in 1..(Len(s) + 1) : \E j \in (i - 1)..Len(s) :
        /\ t = SubSeq(s, i, j)
        /\ \A k \in 1..(i - 1) : s[k] \in Whitespace
        /\ \A k \in (j + 1)..Len(s) : s[k] \in Whitespace

C10_ChecksBeforeBackend ==
    /\ (pc = "raised" /\ result.err \in {"UnknownProvider", "MissingCredential"}) =>
          /\ backendLog = <<>>
          /\ provider = NoObject
    /\ backendLog # <<>> =>
          /\ provider.cls \in Variants
          /\ backendLog[1].provider = provider.id
          /\ provider.cls \in {"OpenAIProvider", "AnthropicProvider"} =>
                /\ Given(provider.api_key)
                /\ provider.client = provider.api_key
                /\ PackageOf(provider.cls) \in installed

\* an invocation ended in MissingCredential
C10_Witness ==
    /\ pc = "raised"
    /\ args.fn = "summarize_text"
    /\ result.err = "MissingCredential"
    /\ backendLog = <<>>

-----------------------------------------------------------------------------
(* transcript.py: extract_video_id.  A URL is a sequence of tokens: the    *)
(* host names and path words are one token each, every other character is  *)
(* a token of its own.                                                     *)

\* the characters the capture group [^&\n?#]+ stops at
StopChars == {"&", "\n", "?", "#"}

\* the alternatives of the first pattern, in order
Pattern1 ==
    << <<"youtube.com", "/", "watch", "?", "v", "=">>,
       <<"youtu.be", "/">>,
       <<"youtube.com", "/", "embed", "/">>,
       <<"youtube.com", "/", "v", "/">>,
       <<"youtube.com", "/", "?", "v", "=">> >>

\* the second pattern
Pattern2 == << <<"youtube.com", "/", "shorts", "/">> >>

\* the literal prefix matches at position i and at least one character of
\* the capture group follows
MatchAt(url, i, prefix) ==
    /\ i + Len(prefix) <= Len(url)
    /\ SubSeq(url, i, i + Len(prefix) - 1) = prefix
    /\ url[i + Len(prefix)] \notin StopChars

\* the greedy capture that starts at position k
CaptureFrom(url, k) ==
    LET end == CHOOSE j \in k..Len(url) :
                  /\ \A m \in k..j : url[m] \notin StopChars
                  /\ j = Len(url) \/ url[j + 1] \in StopChars
    IN  SubSeq(url, k, end)

\* re.search(pattern, url): group(1) of the leftmost match, the first
\* alternative that matches there; None without a match
Search(alternatives, url) ==
    LET hits == { i \in 1..Len(url) :
                    \E a \in 1..Len(alternatives) : MatchAt(url, i, alternatives[a]) }
    IN  IF hits = {} THEN NoneStr
        ELSE LET i == CHOOSE h \in hits : \A g \in hits : h <= g
                 a == CHOOSE b \in 1..Len(alternatives) :
                        /\ MatchAt(url, i, alternatives[b])
                        /\ \A c \in 1..(b - 1) : ~MatchAt(url, i, alternatives[c])
             IN  Some(CaptureFrom(url, i + Len(alternatives[a])))

\* extract_video_id(url)
extract_video_id(url) ==
    IF Search(Pattern1, url).some THEN ReturnedStr(Search(Pattern1, url).v)
    ELSE IF Search(Pattern2, url).some THEN ReturnedStr(Search(Pattern2, url).v)
    ELSE Raised("ValueError", "InvalidReference",
                <<"Could not extract video ID from URL: ">> \o url, {})

\* line 56: 'youtube.com' in video_id_or_url or 'youtu.be' in video_id_or_url
HasMarker(s) == Contains(s, <<"youtube.com">>) \/ Contains(s, <<"youtu.be">>)

\* an except clause that lets the service's exception through
WrapServiceError_Raw(e) == Raised(e.type, "ServiceError", e.message, {})

\* lines 64-65: except Exception as e: raise ValueError(f"...: {str(e)}")
WrapServiceError(e) ==
    Raised("ValueError", "TranscriptUnavailable",
           <<"Could not retrieve transcript: ">> \o e.message, {})

\* a join that leaves out the empty pieces
join_SkipEmpty(sep, xs) ==
    LET RECURSIVE J(_)
        J(ys) == IF ys = <<>> THEN <<>>
                 ELSE IF Head(ys) = <<>> THEN J(Tail(ys))
                 ELSE IF J(Tail(ys)) = <<>> THEN Head(ys)
                 ELSE Head(ys) \o sep \o J(Tail(ys))
    IN  J(xs)

\* str.join: sep.join(xs)
RECURSIVE join(_, _)
join(sep, xs) ==
    IF xs = <<>> THEN <<>>
    ELSE IF Len(xs) = 1 THEN xs[1]
    ELSE xs[1] \o sep \o join(sep, Tail(xs))

\* line 83: ' '.join([segment['text'] for segment in transcript_segments])
JoinSegments(segments) ==
    join(<<" ">>, [i \in 1..Len(segments) |-> segments[i].text])

-----------------------------------------------------------------------------
(* SpecTranscript: get_transcript and get_transcript_text *)

Urls ==
    { <<"https://", "www.", "youtube.com", "/", "watch", "?", "v", "=", "a", "B", "1">>,
      <<"https://", "youtube.com", "/", "watch", "?", "v", "=", "a", "B", "&", "f", "=", "s">>,
      <<"https://", "youtu.be", "/", "a", "B", "1">>,
      <<"youtu.be", "/", "a", "B", "?", "t", "=", "1">>,
      <<"youtube.com", "/", "embed", "/", "a", "B">>,
      <<"youtube.com", "/", "v", "/", "a", "#", "x">>,
      <<"youtube.com", "/", "shorts", "/", "a", "B", "?", "x">>,
      <<"youtube.com", "/", "?", "v", "=", "a">>,
      <<"youtube.com", "/", "shorts", "/", "x", "#", "youtu.be", "/", "y">>,
      <<"https://", "youtube.com", "/", "p", "l">>,
      <<"youtu.be", "/">>,
      <<"youtube.com", "/", "watch", "?", "v", "=", "&", "a">>,
      <<"a", "B", "1">>,
      <<"v", "i", "m", "e", "o", "/", "1">>,
      <<>> }

LanguageLists == { << <<"en">> >>, << <<"fr">>, <<"en">> >> }

SegmentTexts == { <<>>, <<"H", "i">>, <<" ", "w", " ">> }

\* the transcripts the captioning service may return
SegmentLists ==
    UNION { { [i \in 1..n |-> [text |-> t[i], start |-> i - 1, duration |-> 1]] :
                t \in [1..n -> SegmentTexts] } : n \in 0..MaxSegs }

\* the failures the captioning service may signal
ServiceErrors ==
    { [type |-> "NoTranscriptFound",   message |-> <<"No transcripts were found">>],
      [type |-> "TranscriptsDisabled", message |-> <<"Subtitles are disabled">>],
      [type |-> "ConnectionError",     message |-> <<"Connection refused">>] }

InitTranscript ==
    /\ environ = [n \in EnvNames |-> NoneStr]
    /\ installed = {}
    /\ InitLocals

\* get_transcript up to its call of the captioning service (lines 56-62)
GetTranscriptEnter(video_id_or_url, languages) ==
    LET x == IF HasMarker(video_id_or_url)
             THEN extract_video_id(video_id_or_url)
             ELSE ReturnedStr(video_id_or_url)
    IN  IF x.ok
        THEN /\ video_id' = x.value
             /\ serviceLog' = <<[video_id |-> x.value, languages |-> languages,
                                 answered |-> FALSE, ok |-> FALSE, answer |-> <<>>]>>
             /\ result' = NoResult
             /\ pc' = "service"
        ELSE /\ video_id' = <<>>
             /\ serviceLog' = <<>>
             /\ result' = x
             /\ pc' = "raised"

CallGetTranscript ==
    \E fn \in {"get_transcript", "get_transcript_text"},
       url \in Urls, languages \in LanguageLists :
        /\ pc = "idle"
        /\ args' = [NoArgs EXCEPT !.fn = fn, !.url = url, !.languages = languages]
        /\ GetTranscriptEnter(url, languages)
        /\ UNCHANGED <<environ, installed, provider, prompt, backendLog, usedObjects,
                       nextId, transcript, outFile, trace>>

\* the service returns the segments: get_transcript returns them as they
\* are, get_transcript_text joins their texts
ServiceReturns ==
    \E segments \in SegmentLists :
        /\ pc = "service"
        /\ args.fn \in {"get_transcript", "get_transcript_text"}
        /\ serviceLog' = [serviceLog EXCEPT ![1] =
                            [@ EXCEPT !.answered = TRUE, !.ok = TRUE, !.answer = segments]]
        /\ result' = IF args.fn = "get_transcript"
                     THEN [ReturnedStr(<<>>) EXCEPT !.value = segments]
                     ELSE ReturnedStr(JoinSegments(segments))
        /\ pc' = "returned"
        /\ UNCHANGED <<environ, installed, args, provider, prompt, backendLog,
                       usedObjects, nextId, video_id, transcript, outFile, trace>>

\* the service raises: get_transcript wraps the exception
ServiceRaises ==
    \E e \in ServiceErrors :
        /\ pc = "service"
        /\ args.fn \in {"get_transcript", "get_transcript_text", "cli.summarize"}
        /\ serviceLog' = [serviceLog EXCEPT ![1] =
                            [@ EXCEPT !.answered = TRUE, !.ok = FALSE, !.answer = e]]
        /\ result' = WrapServiceError(e)
        /\ pc' = "raised"
        /\ UNCHANGED <<environ, installed, args, provider, prompt, backendLog,
                       usedObjects, nextId, video_id, transcript, outFile, trace>>

\* the call is over, the caller goes on
GetTranscriptDone ==
    /\ pc \in {"returned", "raised"}
    /\ args.fn \in {"get_transcript", "get_transcript_text"}
    /\ pc' = "idle"
    /\ args' = NoArgs
    /\ result' = NoResult
    /\ video_id' = <<>>
    /\ serviceLog' = <<>>
    /\ UNCHANGED <<environ, installed, provider, prompt, backendLog, usedObjects,
                   nextId, transcript, outFile, trace>>

NextTranscript ==
    \/ CallGetTranscript
    \/ ServiceReturns
    \/ ServiceRaises
    \/ GetTranscriptDone

SpecTranscript == InitTranscript /\ [][NextTranscript]_vars

-----------------------------------------------------------------------------
(* SpecCli: the summarize command of cli.py *)

\* str.split(sep) for a one-character separator
RECURSIVE split(_, _)
split(s, sep) ==
    IF \E i \in 1..Len(s) : s[i] = sep
    THEN LET i == CHOOSE j \in 1..Len(s) : s[j] = sep /\ \A k \in 1..(j - 1) : s[k] # sep
         IN  <<SubSeq(s, 1, i - 1)>> \o split(SubSeq(s, i + 1, Len(s)), sep)
    ELSE <<s>>

\* lines 42-44: langs = ['en'], or languages.split(',') when given
ParseLanguages(languages) ==
    IF TruthyStr(languages) THEN split(languages.v, ",") ELSE << <<"en">> >>

\* lines 52-54: kwargs carries model_name only when --model is given
CliKwargs(model) ==
    [model_name |-> IF TruthyStr(model) THEN model ELSE NoneStr, api_key |-> NoneStr]

CliUrls ==
    { <<"https://", "youtu.be", "/", "a", "B", "1">>,
      <<"https://", "youtube.com", "/", "p", "l">>,
      <<"a", "B", "1">> }

CliLanguages == { NoneStr, Some(<<"fr", ",", "en">>) }

CliSelectors == { NoneStr, Some(OPENAI), Some(<<"g","p","t">>) }

CliSegmentLists ==
    { sl \in SegmentLists :
        Len(sl) \in {0, 2} /\ \A i \in 1..Len(sl) : sl[i].text # <<>> }

CliEnvironments ==
    Environments({NoneStr, Some(ANTHROPIC)}, {NoneStr, Some(<<"k","e">>)}, {NoneStr})

InitCli ==
    /\ environ \in Environments({NoneStr}, {NoneStr, Some(<<"k","e">>)}, {NoneStr})
    /\ installed \in SUBSET Packages
    /\ InitLocals

\* load_dotenv(): variables of the .env file that the environment lacks
LoadDotenv ==
    environ' \in { e \in CliEnvironments :
                     \A n \in EnvNames : environ[n].some => e[n] = environ[n] }

\* a command that builds its provider before it fetches the transcript
CallCliSummarize_ProviderFirst ==
    \E url \in CliUrls, p \in CliSelectors, m \in ModelArgs, ml \in {NoneInt, Some(50)},
       languages \in CliLanguages, out \in BOOLEAN :
        /\ pc = "idle"
        /\ LoadDotenv
        /\ args' = [NoArgs EXCEPT !.fn = "cli.summarize", !.url = url,
                                  !.provider_name = p, !.model_name = m,
                                  !.max_length = ml, !.languages = languages,
                                  !.output_file = out]
        /\ provider' = OllamaProvider(LLAMA_MODEL).obj
        /\ nextId' = nextId + 1
        /\ trace' = <<"Fetching transcript for">>
        /\ GetTranscriptEnter(url, ParseLanguages(languages))
        /\ UNCHANGED <<installed, prompt, backendLog, usedObjects, transcript, outFile>>

\* lines 37-47: load the environment, print, parse the languages and call
\* get_transcript_text, up to its call of the captioning service
CallCliSummarize ==
    \E url \in CliUrls, p \in CliSelectors, m \in ModelArgs, ml \in {NoneInt, Some(50)},
       languages \in CliLanguages, out \in BOOLEAN :
        /\ pc = "idle"
        /\ LoadDotenv
        /\ args' = [NoArgs EXCEPT !.fn = "cli.summarize", !.url = url,
                                  !.provider_name = p, !.model_name = m,
                                  !.max_length = ml, !.languages = languages,
                                  !.output_file = out]
        /\ trace' = <<"Fetching transcript for">>
        /\ GetTranscriptEnter(url, ParseLanguages(languages))
        /\ UNCHANGED <<installed, provider, prompt, backendLog, usedObjects, nextId,
                       transcript, outFile>>

\* lines 47-56: the service returns, get_transcript_text joins the texts,
\* the command prints and calls summarize_text, which gets its provider
CliTranscriptFetched ==
    \E segments \in CliSegmentLists :
        /\ pc = "service"
        /\ args.fn = "cli.summarize"
        /\ serviceLog' = [serviceLog EXCEPT ![1] =
                            [@ EXCEPT !.answered = TRUE, !.ok = TRUE, !.answer = segments]]
        /\ transcript' = JoinSegments(segments)
        /\ trace' = trace \o <<"Transcript fetched successfully", "Summarizing transcript">>
        /\ args' = [args EXCEPT !.text = transcript']
        /\ SummarizeTextEnter(args.provider_name, CliKwargs(args.model_name))
        /\ UNCHANGED <<environ, installed, usedObjects, video_id, outFile>>

\* lines 58-64: summarize_text returned: save the summary if asked, return it
CliSummarizeFinish ==
    /\ pc = "returned"
    /\ args.fn = "cli.summarize"
    /\ IF args.output_file
       THEN /\ outFile' = Some(result.value)
            /\ trace' = Append(trace, "Summary saved to")
       ELSE UNCHANGED <<outFile, trace>>
    /\ pc' = "exit"
    /\ UNCHANGED <<environ, installed, args, result, provider, prompt, backendLog,
                   usedObjects, nextId, video_id, serviceLog, transcript>>

NextCli ==
    \/ CallCliSummarize
    \/ CliTranscriptFetched
    \/ ServiceRaises
    \/ ProviderSummarizeSend
    \/ BackendReturns
    \/ BackendRaises
    \/ CliSummarizeFinish

SpecCli == InitCli /\ [][NextCli]_vars

-----------------------------------------------------------------------------
(* Properties of the transcript resolver (SpecTranscript) *)

InTranscriptCall == args.fn \in {"get_transcript", "get_transcript_text"}

\* some URL pattern has a match in s: a pattern's literal part occurs in s
\* followed by a character the capture group accepts
SomePatternMatches(s) ==
    \E i \in 1..Len(s) : \E a \in 1..(Len(Pattern1) + Len(Pattern2)) :
        LET prefix == (Pattern1 \o Pattern2)[a]
            k      == i + Len(prefix)
        IN  /\ k <= Len(s)
            /\ \A m \in 1..Len(prefix) : s[i + m - 1] = prefix[m]
            /\ s[k] \notin StopChars

\* C6: an input with a marker has its identifier extracted first, and fails
\* with InvalidReference, the service never called, when no pattern matches;
\* an input without a marker goes to the service unchanged; every failure
\* the service signals reaches the caller as TranscriptUnavailable with the
\* cause's message, never as the service's own error.
C6_Classification ==
    (InTranscriptCall /\ pc \in {"service", "returned", "raised"}) =>
        LET marked == \E i \in 1..Len(args.url) : args.url[i] \in {"youtube.com", "youtu.be"}
        IN  /\ (marked /\ ~SomePatternMatches(args.url)) =>
                  /\ pc = "raised"
                  /\ result.err = "InvalidReference"
                  /\ serviceLog = <<>>
            /\ (marked /\ SomePatternMatches(args.url)) =>
                  /\ Len(serviceLog) = 1
                  /\ serviceLog[1].video_id # args.url
                  /\ Contains(args.url, serviceLog[1].video_id)
                  /\ \A i \in 1..Len(serviceLog[1].video_id) :
                        serviceLog[1].video_id[i] \notin StopChars
            /\ ~marked =>
                  /\ Len(serviceLog) = 1
                  /\ serviceLog[1].video_id = args.url
            /\ serviceLog # <<>> => serviceLog[1].languages = args.languages
            /\ (serviceLog # <<>> /\ serviceLog[1].answered /\ ~serviceLog[1].ok) =>
                  /\ pc = "raised"
                  /\ result.err = "TranscriptUnavailable"
                  /\ result.exc = "ValueError"
                  /\ result.exc # serviceLog[1].answer.type
                  /\ result.msg = <<"Could not retrieve transcript: ">>
                                     \o serviceLog[1].answer.message
            /\ (pc = "raised" /\ serviceLog = <<>>) => result.err = "InvalidReference"

\* a marked input no pattern matches was refused before any service call
C6_Witness ==
    /\ InTranscriptCall
    /\ pc = "raised"
    /\ args.url = <<"youtu.be", "/">>
    /\ result.err = "InvalidReference"
    /\ serviceLog = <<>>

\* the service's failure was wrapped
C6_WitnessWrapped ==
    /\ InTranscriptCall
    /\ pc = "raised"
    /\ result.err = "TranscriptUnavailable"
    /\ serviceLog[1].answer.type = "TranscriptsDisabled"

\* where segment i's text starts in the joined string, less one
RECURSIVE OffsetOf(_, _)
OffsetOf(segments, i) ==
    IF i = 1 THEN 0
    ELSE OffsetOf(segments, i - 1) + Len(segments[i - 1].text) + 1

\* C7: the joined text is the segment texts in their order, exactly one
\* space between neighbours, nothing trimmed, dropped or normalised; zero
\* segments give the empty string and no error.
C7_JoinedText ==
    (args.fn = "get_transcript_text" /\ serviceLog # <<>>
        /\ serviceLog[1].answered /\ serviceLog[1].ok) =>
        LET segments == serviceLog[1].answer
            n        == Len(segments)
            out      == result.value
        IN  /\ pc = "returned"
            /\ result.ok
            /\ n = 0 => out = <<>>
            /\ n > 0 =>
                  /\ Len(out) = OffsetOf(segments, n) + Len(segments[n].text)
                  /\ \A i \in 1..n :
                        /\ SubSeq(out, OffsetOf(segments, i) + 1,
                                  OffsetOf(segments, i) + Len(segments[i].text))
                              = segments[i].text
                        /\ i < n =>
                              out[OffsetOf(segments, i) + Len(segments[i].text) + 1] = " "

\* an empty text and a text with spaces of its own were joined untouched
C7_Witness ==
    /\ args.fn = "get_transcript_text"
    /\ pc = "returned"
    /\ Len(serviceLog[1].answer) = 2
    /\ serviceLog[1].answer[1].text = <<>>
    /\ serviceLog[1].answer[2].text = <<" ", "w", " ">>
    /\ result.value = <<" ", " ", "w", " ">>

\* zero segments were joined into the empty string
C7_WitnessEmpty ==
    /\ args.fn = "get_transcript_text"
    /\ pc = "returned"
    /\ serviceLog[1].answer = <<>>
    /\ result.value = <<>>

-----------------------------------------------------------------------------
(* Properties of the summarize command (SpecCli) *)

InCli == args.fn = "cli.summarize"

TranscriptFetched ==
    /\ serviceLog # <<>>
    /\ serviceLog[1].answered
    /\ serviceLog[1].ok

\* C5: the summarization backend is invoked only after transcript retrieval
\* has returned successfully; in a run where retrieval fails no provider is
\* constructed, no backend call is made and the output file is not written.
C5_TranscriptBeforeSummary ==
    InCli =>
        /\ (provider # NoObject \/ nextId # 1 \/ backendLog # <<>> \/ outFile.some)
              => TranscriptFetched
        /\ backendLog # <<>> =>
              /\ transcript = JoinSegments(serviceLog[1].answer)
              /\ Contains(backendLog[1].message, transcript)
        /\ (pc = "raised" /\ result.err \in {"InvalidReference", "TranscriptUnavailable"}) =>
              /\ provider = NoObject
              /\ nextId = 1
              /\ backendLog = <<>>
              /\ ~outFile.some
        /\ outFile.some =>
              /\ pc = "exit"
              /\ backendLog[1].ok
              /\ outFile.v = result.value

\* a run whose transcript retrieval failed at the service
C5_Witness ==
    /\ InCli
    /\ pc = "raised"
    /\ result.err = "TranscriptUnavailable"
    /\ args.output_file
    /\ provider = NoObject

\* a run that fetched, summarized and saved
C5_WitnessSaved ==
    /\ InCli
    /\ pc = "exit"
    /\ outFile.some
    /\ Len(serviceLog[1].answer) = 2

====
